---- MODULE Spec2Model ----
(***************************************************************************)
(* Model of src/agent.py: the GeminiAgent class (session factory, message  *)
(* relay, history printer) and the interactive loop run_agent_cli.         *)
(*                                                                         *)
(* Text is modelled as sequences of one-character strings so that          *)
(* str.lower() and str.strip() are computed, not assumed.  A Python value  *)
(* that is printed or returned is either None or a string made of a        *)
(* literal of the program (lit) followed by a run-time text (dyn).         *)
(***************************************************************************)
EXTENDS Integers, Sequences, FiniteSets, TLC

\* ---------------------------------------------------------------- bounds
MaxInputs == 3

\* ------------------------------------------------------------ characters
Upper == <<"A","B","C","D","E","F","G","H","I","J","K","L","M",
           "N","O","P","Q","R","S","T","U","V","W","X","Y","Z">>
Lower == <<"a","b","c","d","e","f","g","h","i","j","k","l","m",
           "n","o","p","q","r","s","t","u","v","w","x","y","z">>

Whitespace == {" ", "\t"}

\* str.lower() on one character
LowerChar(c) ==
  IF \E i \in 1..26 : Upper[i] = c
  THEN Lower[CHOOSE i \in 1..26 : Upper[i] = c]
  ELSE c

\* a buggy str.lower(): the text is compared as typed
lower_identity(s) == s

\* str.lower()
lower(s) == [i \in 1..Len(s) |-> LowerChar(s[i])]

RECURSIVE lstrip(_)
lstrip(s) == IF s # <<>> /\ Head(s) \in Whitespace THEN lstrip(Tail(s)) ELSE s

RECURSIVE rstrip(_)
rstrip(s) ==
  IF s # <<>> /\ s[Len(s)] \in Whitespace
  THEN rstrip(SubSeq(s, 1, Len(s) - 1))
  ELSE s

\* str.strip()
strip(s) == rstrip(lstrip(s))

\* ---------------------------------------------------------- Python values
None == [t |-> "None", lit |-> "", dyn |-> <<>>]
Str(l, d) == [t |-> "str", lit |-> l, dyn |-> d]

\* f"{v}"
Format(v) == IF v.t = "None" THEN Str("None", <<>>) ELSE v

DegradedMsg == "Agent failed to initialize. Please check your API key setup."
ErrorPrefix == "An error occurred during message processing: "
Placeholder == "[Non-Text Content]"
Farewell    == "Sage: Goodbye! Stay curious about our planet!"
Critical    == "CRITICAL: Please set the 'GEMINI_API_KEY' environment variable."
Unexpected  == "An unexpected error occurred: "
NoChatAttr  == <<"n","o"," ","c","h","a","t">>

\* ---------------------------------------------------------------- inputs
quit    == <<"q","u","i","t">>
exit    == <<"e","x","i","t">>
history == <<"h","i","s","t","o","r","y">>
Question ==
  <<"W","h","a","t"," ","i","s"," ","c","l","i","m","a","t","e"," ",
    "c","h","a","n","g","e","?">>

InputLines ==
  { quit, <<"Q","U","I","T">>, <<"E","x","i","t">>,
    history, <<"H","i","s","t","o","r","y">>,
    <<>>, <<" ">>, <<"\t"," ">>,
    Question, <<" ","q","u","i","t">>, <<"h","i","s","t","o","r","y"," ">>,
    <<"H","i">> }

\* ------------------------------------------------- the remote chat session
TextPart(d) == [hasattr |-> TRUE, text |-> Str("", d)]

\* what the hosted service can do with one request
RemoteOutcomes ==
  { [raised |-> FALSE, err |-> <<>>, parts |-> <<TextPart(<<"o","k">>)>>],
    [raised |-> FALSE, err |-> <<>>, parts |-> <<[hasattr |-> TRUE, text |-> None]>>],
    [raised |-> FALSE, err |-> <<>>, parts |-> <<[hasattr |-> FALSE, text |-> None]>>],
    [raised |-> FALSE, err |-> <<>>, parts |-> <<>>],
    [raised |-> TRUE,  err |-> <<"5","0","3">>, parts |-> <<>>] }

\* response.text of the library: the text of the reply, None without one
ResponseText(parts) ==
  IF parts # <<>> /\ parts[1].hasattr THEN parts[1].text ELSE None

\* chat.send_message(prompt): the session appends the USER turn and the
\* ASSISTANT turn of a successful exchange; a failed request records nothing
ChatSendMessage(turns, prompt, o) ==
  IF o.raised
  THEN [raised |-> TRUE, err |-> o.err, text |-> None, turns |-> turns]
  ELSE [raised |-> FALSE, err |-> <<>>, text |-> ResponseText(o.parts),
        turns |-> turns \o << [role |-> "user",  parts |-> <<TextPart(prompt)>>],
                              [role |-> "model", parts |-> o.parts] >>]

\* chat.get_history(): the whole sequence of turns
ChatGetHistory(turns) == turns

\* ------------------------------------------------------------ GeminiAgent
FactoryOutcomes == {"ok", "client_fail", "chat_fail"}

\* GeminiAgent.__init__: genai.Client() is guarded by try/except, the
\* later client.chats.create(...) is not
GeminiAgent_init(outcome) ==
  CASE outcome = "client_fail" ->
         [raised |-> FALSE, client |-> "None", hasChat |-> FALSE,
          printed |-> <<[kind |-> "init_error", text |-> None, lines |-> <<>>]>>]
    [] outcome = "chat_fail" ->
         [raised |-> TRUE, client |-> "Client", hasChat |-> FALSE,
          printed |-> <<>>]
    [] OTHER ->
         [raised |-> FALSE, client |-> "Client", hasChat |-> TRUE,
          printed |-> <<[kind |-> "init_ok", text |-> None, lines |-> <<>>]>>]

\* the remote call of send_message, with self.chat looked up first
CallChat(self, prompt, o) ==
  IF ~self.hasChat
  THEN [raised |-> TRUE, err |-> NoChatAttr, text |-> None,
        turns |-> self.turns, calls |-> <<>>]
  ELSE LET r == ChatSendMessage(self.turns, prompt, o)
       IN  [raised |-> r.raised, err |-> r.err, text |-> r.text,
            turns |-> r.turns,
            calls |-> <<[prompt |-> prompt, raised |-> r.raised]>>]

\* send_message without the `if not self.client` guard
send_message_noguard(self, prompt, o) ==
  LET r == CallChat(self, prompt, o)
  IN  [raised |-> FALSE,
       ret    |-> IF r.raised THEN Str(ErrorPrefix, r.err) ELSE r.text,
       err    |-> <<>>, turns |-> r.turns, calls |-> r.calls]

\* send_message without the try/except around the remote call
send_message_nocatch(self, prompt, o) ==
  IF self.client = "None"
  THEN [raised |-> FALSE, ret |-> Str(DegradedMsg, <<>>), err |-> <<>>,
        turns |-> self.turns, calls |-> <<>>]
  ELSE LET r == CallChat(self, prompt, o)
       IN  [raised |-> r.raised, ret |-> r.text, err |-> r.err,
            turns |-> r.turns, calls |-> r.calls]

\* GeminiAgent.send_message
send_message(self, prompt, o) ==
  IF self.client = "None"
  THEN [raised |-> FALSE, ret |-> Str(DegradedMsg, <<>>), err |-> <<>>,
        turns |-> self.turns, calls |-> <<>>]
  ELSE LET r == CallChat(self, prompt, o)
       IN  [raised |-> FALSE,
            ret    |-> IF r.raised THEN Str(ErrorPrefix, r.err) ELSE r.text,
            err    |-> <<>>, turns |-> r.turns, calls |-> r.calls]

\* line 72: the text shown for one turn
MessageText(message) ==
  IF message.parts # <<>> /\ message.parts[1].hasattr
  THEN message.parts[1].text
  ELSE Str(Placeholder, <<>>)

\* lines 73-74: the printed line of one turn
HistoryLine(message) ==
  [role |-> IF message.role = "user" THEN "USER" ELSE "SAGE",
   text |-> Format(MessageText(message))]

\* get_history that skips the first turn
get_history_dropfirst(self) ==
  IF ~self.hasChat
  THEN [raised |-> TRUE, err |-> NoChatAttr, fetched |-> <<>>,
        printed |-> <<[kind |-> "history", text |-> None, lines |-> <<>>]>>]
  ELSE LET ms == IF self.turns = <<>> THEN <<>> ELSE Tail(ChatGetHistory(self.turns))
       IN  [raised |-> FALSE, err |-> <<>>, fetched |-> ms,
            printed |-> <<[kind |-> "history", text |-> None,
                           lines |-> [i \in 1..Len(ms) |-> HistoryLine(ms[i])]],
                          [kind |-> "history_end", text |-> None, lines |-> <<>>]>>]

\* GeminiAgent.get_history: the header is printed before self.chat is read
get_history(self) ==
  IF ~self.hasChat
  THEN [raised |-> TRUE, err |-> NoChatAttr, fetched |-> <<>>,
        printed |-> <<[kind |-> "history", text |-> None, lines |-> <<>>]>>]
  ELSE LET ms == ChatGetHistory(self.turns)
       IN  [raised |-> FALSE, err |-> <<>>, fetched |-> ms,
            printed |-> <<[kind |-> "history", text |-> None,
                           lines |-> [i \in 1..Len(ms) |-> HistoryLine(ms[i])]],
                          [kind |-> "history_end", text |-> None, lines |-> <<>>]>>]

\* ---------------------------------------------------------- run_agent_cli
\* a key check that looks at nothing
KeyInEnviron_always(env) == TRUE

\* 'GEMINI_API_KEY' in os.environ
KeyInEnviron(env) == "GEMINI_API_KEY" \in env

\* the loop's tests without the blank-line test
Dispatch_noblank(user_input) ==
  IF lower(user_input) \in {quit, exit} THEN "quit"
  ELSE IF lower(user_input) = history THEN "history"
  ELSE "relay"

\* the loop's tests on the stripped line
Dispatch_stripfirst(user_input) ==
  IF lower(strip(user_input)) \in {quit, exit} THEN "quit"
  ELSE IF lower(strip(user_input)) = history THEN "history"
  ELSE IF strip(user_input) = <<>> THEN "blank"
  ELSE "relay"

\* lines 96-107: the tests of one loop iteration, in the code's order
Dispatch(user_input) ==
  IF lower(user_input) \in {quit, exit} THEN "quit"
  ELSE IF lower(user_input) = history THEN "history"
  ELSE IF strip(user_input) = <<>> THEN "blank"
  ELSE "relay"

VARIABLES
  environ,   \* names present in os.environ once load_dotenv() has run
  pc,        \* "start", "returned", "crashed", "running", "terminated"
  factory,   \* what the session factory met: "none" before it ran
  client,    \* self.client: "unset", "Client" or "None"
  hasChat,   \* whether self.chat was assigned
  turns,     \* the turn sequence held by the chat session
  inputs,    \* the lines input() has returned, in order
  out,       \* what was printed, in order
  relay,     \* the calls of agent.send_message: [idx, prompt]
  remote,    \* the calls of chat.send_message: [idx, prompt, raised]
  fetches    \* the turn sequences get_history fetched: [n, turns]

vars == <<environ, pc, factory, client, hasChat, turns, inputs, out,
          relay, remote, fetches>>

Self == [client |-> client, hasChat |-> hasChat, turns |-> turns]

Line(k, v) == [kind |-> k, text |-> v, lines |-> <<>>]

\* number of successful remote calls so far
NumOk(r) == Cardinality({i \in 1..Len(r) : ~r[i].raised})

Init ==
  /\ environ \in {{}, {"GEMINI_API_KEY"}}
  /\ pc = "start"
  /\ factory = "none"
  /\ client = "unset"
  /\ hasChat = FALSE
  /\ turns = <<>>
  /\ inputs = <<>>
  /\ out = <<>>
  /\ relay = <<>>
  /\ remote = <<>>
  /\ fetches = <<>>

\* lines 80-83: the key is absent, report and return
EnvMissing ==
  /\ pc = "start"
  /\ ~KeyInEnviron(environ)
  /\ pc' = "returned"
  /\ out' = Append(out, Line("critical", Str(Critical, <<>>)))
  /\ UNCHANGED <<environ, factory, client, hasChat, turns, inputs, relay,
                 remote, fetches>>

\* lines 85-91: build the agent, print the welcome banner
Construct ==
  /\ pc = "start"
  /\ KeyInEnviron(environ)
  /\ \E o \in FactoryOutcomes :
       LET a == GeminiAgent_init(o)
       IN  /\ factory' = o
           /\ client' = a.client
           /\ hasChat' = a.hasChat
           /\ IF a.raised
              THEN /\ pc' = "crashed"
                   /\ out' = out \o a.printed
              ELSE /\ pc' = "running"
                   /\ out' = (out \o a.printed) \o <<Line("welcome", None)>>
  /\ UNCHANGED <<environ, turns, inputs, relay, remote, fetches>>

\* lines 95-98: quit or exit
ReadQuit ==
  /\ pc = "running"
  /\ Len(inputs) < MaxInputs
  /\ \E user_input \in InputLines :
       /\ Dispatch(user_input) = "quit"
       /\ inputs' = Append(inputs, user_input)
       /\ out' = Append(out, Line("farewell", Str(Farewell, <<>>)))
       /\ pc' = "terminated"
  /\ UNCHANGED <<environ, factory, client, hasChat, turns, relay, remote,
                 fetches>>

\* lines 100-102, and 113-115 when get_history raises
ReadHistory ==
  /\ pc = "running"
  /\ Len(inputs) < MaxInputs
  /\ \E user_input \in InputLines :
       /\ Dispatch(user_input) = "history"
       /\ inputs' = Append(inputs, user_input)
       /\ LET h == get_history(Self)
          IN  IF h.raised
              THEN /\ out' = (out \o h.printed)
                               \o <<Line("unexpected", Str(Unexpected, h.err))>>
                   /\ pc' = "terminated"
                   /\ fetches' = fetches
              ELSE /\ out' = out \o h.printed
                   /\ pc' = "running"
                   /\ fetches' = Append(fetches,
                                   [n |-> NumOk(remote), turns |-> h.fetched])
  /\ UNCHANGED <<environ, factory, client, hasChat, turns, relay, remote>>

\* lines 104-105: an empty or whitespace-only line
ReadBlank ==
  /\ pc = "running"
  /\ Len(inputs) < MaxInputs
  /\ \E user_input \in InputLines :
       /\ Dispatch(user_input) = "blank"
       /\ inputs' = Append(inputs, user_input)
  /\ UNCHANGED <<environ, pc, factory, client, hasChat, turns, out, relay,
                 remote, fetches>>

\* lines 107-108, and 113-115 when send_message raises
ReadFreeText ==
  /\ pc = "running"
  /\ Len(inputs) < MaxInputs
  /\ \E user_input \in InputLines, o \in RemoteOutcomes :
       /\ Dispatch(user_input) = "relay"
       /\ inputs' = Append(inputs, user_input)
       /\ relay' = Append(relay, [idx |-> Len(inputs) + 1, prompt |-> user_input])
       /\ LET r == send_message(Self, user_input, o)
          IN  /\ turns' = r.turns
              /\ remote' = remote \o
                   [i \in 1..Len(r.calls) |->
                      [idx |-> Len(inputs) + 1, prompt |-> r.calls[i].prompt,
                       raised |-> r.calls[i].raised]]
              /\ IF r.raised
                 THEN /\ out' = Append(out, Line("unexpected", Str(Unexpected, r.err)))
                      /\ pc' = "terminated"
                 ELSE /\ out' = Append(out, Line("reply", Format(r.ret)))
                      /\ pc' = "running"
  /\ UNCHANGED <<environ, factory, client, hasChat, fetches>>

\* lines 110-112: KeyboardInterrupt while the loop waits
Interrupt ==
  /\ pc = "running"
  /\ out' = Append(out, Line("farewell", Str(Farewell, <<>>)))
  /\ pc' = "terminated"
  /\ UNCHANGED <<environ, factory, client, hasChat, turns, inputs, relay,
                 remote, fetches>>

\* lines 113-115: input() itself raises (end of input)
InputError ==
  /\ pc = "running"
  /\ out' = Append(out, Line("unexpected", Str(Unexpected, <<"E","O","F">>)))
  /\ pc' = "terminated"
  /\ UNCHANGED <<environ, factory, client, hasChat, turns, inputs, relay,
                 remote, fetches>>

Next ==
  \/ EnvMissing
  \/ Construct
  \/ ReadQuit
  \/ ReadHistory
  \/ ReadBlank
  \/ ReadFreeText
  \/ Interrupt
  \/ InputError

Spec == Init /\ [][Next]_vars

\* ------------------------------------------------------------- properties
\* the classes of input lines, stated on the characters themselves
SameIgnoringCase(s, w) ==
  /\ Len(s) = Len(w)
  /\ \A i \in 1..Len(w) :
       \/ s[i] = w[i]
       \/ \E k \in 1..26 : Lower[k] = w[i] /\ Upper[k] = s[i]

IsQuitWord(s)    == SameIgnoringCase(s, quit) \/ SameIgnoringCase(s, exit)
IsHistoryWord(s) == SameIgnoringCase(s, history)
IsBlankLine(s)   == \A i \in 1..Len(s) : s[i] \in Whitespace
IsFreeText(s)    == ~IsQuitWord(s) /\ ~IsHistoryWord(s) /\ ~IsBlankLine(s)

JustRead == Len(inputs') = Len(inputs) + 1
NewLine  == inputs'[Len(inputs')]

KindCount(o, k) == Cardinality({i \in 1..Len(o) : o[i].kind = k})
IsPrefix(a, b)  == Len(a) <= Len(b) /\ \A i \in 1..Len(a) : a[i] = b[i]
DegradedReply   == Line("reply", Str(DegradedMsg, <<>>))
FarewellLine    == Line("farewell", Str(Farewell, <<>>))

\* C1: while the session is disabled (self.client is None) send_message
\* returns the fixed "Agent failed to initialize" string for every prompt,
\* every reply the loop printed is that string, one per free-text line, and
\* the remote chat session was never called.
C1_DisabledRelayIsFixed ==
  client = "None" =>
    /\ remote = <<>>
    /\ turns = <<>>
    /\ \A prompt \in InputLines, o \in RemoteOutcomes :
         LET r == send_message(Self, prompt, o)
         IN  /\ r.ret = Str(DegradedMsg, <<>>)
             /\ r.calls = <<>>
             /\ ~r.raised
    /\ \A i \in 1..Len(out) : out[i].kind = "reply" => out[i] = DegradedReply
    /\ KindCount(out, "reply") = Len(relay)
    /\ Len(relay) = Cardinality({i \in 1..Len(inputs) : IsFreeText(inputs[i])})

C1_Witness ==
  /\ client = "None"
  /\ Len(relay) = 2
  /\ KindCount(out, "reply") = 2
  /\ pc = "running"

\* C2: every failure of the session factory (client construction or chat
\* session creation) is contained: nothing is raised out of the constructor,
\* the disabled state is recorded and the loop is entered.
C2_FactoryFailureContained ==
  factory \in {"client_fail", "chat_fail"} =>
    /\ pc \in {"running", "terminated"}
    /\ client = "None"

\* C3: a line equal to quit or exit in any letter case, read while RUNNING,
\* terminates the loop, prints the farewell once, makes no relay call, and
\* is the last line ever read.
C3_QuitTerminates ==
  [][ /\ (JustRead /\ IsQuitWord(NewLine)) =>
           /\ pc = "running"
           /\ pc' = "terminated"
           /\ out' = Append(out, FarewellLine)
           /\ KindCount(out', "farewell") = 1
           /\ relay' = relay
           /\ remote' = remote
           /\ turns' = turns
      /\ \A i \in 1..Len(inputs) : IsQuitWord(inputs[i]) => inputs' = inputs
    ]_vars

C3_Witness ==
  /\ pc = "terminated"
  /\ Len(inputs) = 2
  /\ inputs[2] = <<"Q","U","I","T">>
  /\ out[Len(out)] = FarewellLine

\* C4: an empty or whitespace-only line leaves the loop RUNNING, makes no
\* relay call, prints nothing and leaves the turn sequence as it was.
C4_BlankIsNoOp ==
  [][ (JustRead /\ IsBlankLine(NewLine)) =>
        /\ pc' = "running"
        /\ relay' = relay
        /\ remote' = remote
        /\ out' = out
        /\ turns' = turns
    ]_vars

C4_Witness ==
  /\ pc = "running"
  /\ Len(inputs) = 2
  /\ inputs[2] = <<"\t"," ">>
  /\ Len(turns) = 2
  /\ KindCount(out, "reply") = 1

\* the k-th successful remote call
OkCalls(r) == SelectSeq(r, LAMBDA c : ~c.raised)

Alternating(ts, calls) ==
  /\ Len(ts) = 2 * Len(calls)
  /\ \A k \in 1..Len(calls) :
       /\ ts[2 * k - 1] = [role |-> "user",
                           parts |-> <<TextPart(inputs[calls[k].idx])>>]
       /\ ts[2 * k].role = "model"

\* C5: with a functioning session the turn sequence holds, for the N
\* successful relay calls so far, N user turns and N assistant turns,
\* alternating user then assistant in sending order; every fetched history
\* has that shape for the N of its moment and is a prefix of every later
\* fetch and of the current sequence.
C5_HistoryAlternatesAndGrows ==
  (client = "Client" /\ hasChat) =>
    /\ Alternating(turns, OkCalls(remote))
    /\ \A j \in 1..Len(fetches) :
         /\ Len(fetches[j].turns) = 2 * fetches[j].n
         /\ fetches[j].n <= NumOk(remote)
         /\ Alternating(fetches[j].turns,
                        SubSeq(OkCalls(remote), 1, fetches[j].n))
         /\ IsPrefix(fetches[j].turns, turns)
         /\ \A k \in 1..j : IsPrefix(fetches[k].turns, fetches[j].turns)

C5_Witness ==
  /\ Len(fetches) = 2
  /\ fetches[1].n = 0
  /\ fetches[2].n = 1
  /\ Len(fetches[2].turns) = 2

FreeIdx(ins) == {i \in 1..Len(ins) : IsFreeText(ins[i])}
Scenario == <<Question, history, quit>>

\* C6: with a functioning session the relay is called once for each
\* free-text line read, in order, with the line unchanged, and for no other
\* line; the lines "What is climate change?", "history", "quit" give one
\* relay call, one history dump of 2 turns, the farewell and TERMINATED.
C6_OneRelayPerFreeText ==
  (client = "Client" /\ hasChat) =>
    /\ Len(relay) = Cardinality(FreeIdx(inputs))
    /\ \A k \in 1..Len(relay) :
         /\ relay[k].idx \in FreeIdx(inputs)
         /\ relay[k].prompt = inputs[relay[k].idx]
         /\ \A m \in 1..(k - 1) : relay[m].idx < relay[k].idx
    /\ Len(remote) = Len(relay)
    /\ \A k \in 1..Len(remote) :
         /\ remote[k].idx = relay[k].idx
         /\ remote[k].prompt = relay[k].prompt
    /\ (inputs = Scenario /\ NumOk(remote) = Len(remote)) =>
         /\ Len(relay) = 1
         /\ relay[1].prompt = Question
         /\ KindCount(out, "history") = 1
         /\ \A i \in 1..Len(out) :
              out[i].kind = "history" => Len(out[i].lines) = 2
         /\ out[Len(out)] = FarewellLine
         /\ KindCount(out, "farewell") = 1
         /\ pc = "terminated"

C6_Witness ==
  /\ client = "Client"
  /\ inputs = Scenario
  /\ NumOk(remote) = 1
  /\ pc = "terminated"

ErrorReplies ==
  {Line("reply", Str(ErrorPrefix, o.err)) : o \in {x \in RemoteOutcomes : x.raised}}

\* C7: when the remote call inside send_message raises, the failure comes
\* back as the reply "An error occurred during message processing: ...",
\* the loop prints it as a reply and stays RUNNING.
C7_RemoteErrorIsAReply ==
  [][ (Len(remote') > Len(remote) /\ remote'[Len(remote')].raised) =>
        /\ Len(out') = Len(out) + 1
        /\ out'[Len(out')] \in ErrorReplies
        /\ pc' = "running"
        /\ turns' = turns
    ]_vars

C7_Witness ==
  /\ pc = "running"
  /\ Len(remote) = 2
  /\ remote[1].raised
  /\ ~remote[2].raised
  /\ out[Len(out) - 1] \in ErrorReplies
  /\ Len(turns) = 2

\* C8: when GEMINI_API_KEY is absent the program reports it and returns:
\* the factory is never tried, no line is read, and the relay and the
\* history printer are never called.
C8_MissingKeyReturnsEarly ==
  ("GEMINI_API_KEY" \notin environ) =>
    /\ pc \in {"start", "returned"}
    /\ factory = "none"
    /\ client = "unset"
    /\ inputs = <<>>
    /\ relay = <<>>
    /\ remote = <<>>
    /\ fetches = <<>>
    /\ KindCount(out, "history") = 0
    /\ pc = "returned" => out = <<Line("critical", Str(Critical, <<>>))>>

C8_Witness ==
  /\ "GEMINI_API_KEY" \notin environ
  /\ pc = "returned"
  /\ Len(out) = 1

\* C9: a line equal to history in any letter case, read while RUNNING in
\* any session state (degraded included), leaves the loop RUNNING, runs the
\* history printer, makes no relay call and leaves the turns unchanged.
C9_HistoryKeepsRunning ==
  [][ (JustRead /\ IsHistoryWord(NewLine)) =>
        /\ pc' = "running"
        /\ KindCount(out', "history") = KindCount(out, "history") + 1
        /\ relay' = relay
        /\ remote' = remote
        /\ turns' = turns
    ]_vars

\* the text the history printer is to show for one turn
ShownText(message) ==
  IF /\ message.parts # <<>>
     /\ message.parts[1].hasattr
     /\ message.parts[1].text.t = "str"
  THEN message.parts[1].text
  ELSE Str(Placeholder, <<>>)

\* C10: every printed history shows, turn by turn and in order, the first
\* part's text when that part carries text and the placeholder
\* "[Non-Text Content]" otherwise (no parts, or a first part without text).
C10_PlaceholderForNonText ==
  \A i \in 1..Len(out) :
    out[i].kind = "history" =>
      /\ Len(out[i].lines) <= Len(turns)
      /\ \A k \in 1..Len(out[i].lines) :
           out[i].lines[k].text = ShownText(turns[k])
====
